---- MODULE Spec2Model ----
(***************************************************************************)
(* Model of the compilation cache (src/internal/cache.go) and of the       *)
(* compile session that drives it (src/unnamed/part_012, Compiler.Compile) *)
(* of octree-compile.  Workers run compile sessions concurrently; the      *)
(* cache's expiry sweeper runs beside them.  SpecQueue adds the HTTP       *)
(* handler and the job queue in front of the workers; SpecPure calls the   *)
(* pure helpers on bounded inputs.                                         *)
(*                                                                         *)
(* Go maps are functions whose DOMAIN is the set of keys present.  A       *)
(* *sync.Mutex is an integer identity; `locked` is the set of mutexes that *)
(* are currently locked.  A workspace directory is an integer identity;    *)
(* `disk` maps the directories that exist to their content.                *)
(***************************************************************************)
EXTENDS Integers, Sequences, FiniteSets, TLC

\* ------------------------------------------------------------------ bounds
Workers == {"w1", "w2"}
\* Project ids are interchangeable: requests name them in this order of first use.
ProjectSeq == <<"p1", "p2", "p3">>
Projects == {ProjectSeq[i] : i \in DOMAIN ProjectSeq}
\* jobs taken from the queue in one run
MaxJobs == 3
\* last value of the clock
MaxTime == 8
\* HTTP requests that arrive in one run of the server with its queue
MaxRequests == 3
\* longest file list handed to the pure helpers
MaxFiles == 2

\* --------------------------------------------------------------- constants
\* cache.go:14, scaled down (15 in the source) so that eviction is reached
MaxCachedProjects == 2
\* cache.go:13, in clock units (30 minutes in the source)
CacheExpirationTime == 1

\* part_016:46, cap(requestQueue), scaled down (MaxConcurrentRequests*2 = 4 in
\* the source) so that a full queue is reached
QueueCapacity == 2
\* handlers: make(chan *CompileResult, 1)
ResultChanCapacity == 1

NoDir == 0
NoMutex == 0
NoPdf == << >>

\* ------------------------------------------------------------------- files
FileA == << [Path |-> "main.tex", Content |-> "A"] >>
FileB == << [Path |-> "main.tex", Content |-> "B"] >>
FileBib == << [Path |-> "refs.bib", Content |-> "R"] >>
FileLists == {FileA, FileB, FileBib}
\* a file whose path leaves the workspace
FileEsc == << [Path |-> "main.tex", Content |-> "A"],
              [Path |-> "../evil.sty", Content |-> "E"] >>

TexPaths == {"main.tex"}

\* strings.HasSuffix(file.Path, ".tex") over the paths of FileLists
HasSuffixTex(path) == path \in TexPaths

\* a collision-free digest: the tagged input
Sha256(x) == <<"sha256", x>>

HashFileContent(content) == Sha256(content)

RECURSIVE HashStream(_)
HashStream(files) ==
    IF files = << >> THEN << >>
    ELSE <<Head(files).Path, "NUL", Head(files).Content, "NUL">> \o HashStream(Tail(files))

HashFileSet(files) == Sha256(HashStream(files))

\* the last file with a given path wins, as in the loop of assignments
LastIndexOf(files, path) ==
    CHOOSE i \in DOMAIN files :
        /\ files[i].Path = path
        /\ \A j \in DOMAIN files : files[j].Path = path => j <= i

buildFileHashMap(files) ==
    [path \in {files[i].Path : i \in DOMAIN files} |->
        HashFileContent(files[LastIndexOf(files, path)].Content)]

\* the extension of a path, for the paths the model uses ("" for any other
\* extension)
PathSuffix(path) ==
    CASE path \in {"main.tex", "ch1.tex"} -> ".tex"
      [] path \in {"refs.bib"} -> ".bib"
      [] path \in {"pkg.sty", "../evil.sty", "/abs.sty"} -> ".sty"
      [] path \in {"book.cls"} -> ".cls"
      [] path \in {"old.ltx"} -> ".ltx"
      [] OTHER -> ""

\* strings.HasSuffix(path, suffix) for an extension
HasSuffix(path, suffix) == PathSuffix(path) = suffix

\* &FileChanges{} with its three empty slices
NoChanges == [Added |-> << >>, Modified |-> << >>, Deleted |-> {},
              HasTexChanges |-> FALSE, HasBibChanges |-> FALSE,
              HasAssetChanges |-> FALSE]

\* categorizeFileChange: the flag the extension of a changed path sets
categorizeFileChange(path, changes) ==
    IF HasSuffix(path, ".tex") \/ HasSuffix(path, ".sty") \/ HasSuffix(path, ".cls")
    THEN [changes EXCEPT !.HasTexChanges = TRUE]
    ELSE IF HasSuffix(path, ".bib")
    THEN [changes EXCEPT !.HasBibChanges = TRUE]
    ELSE [changes EXCEPT !.HasAssetChanges = TRUE]

\* categorizeFileChange for each path diffFiles records as changed
RECURSIVE categorizeAll(_, _)
categorizeAll(paths, changes) ==
    IF paths = {} THEN changes
    ELSE LET path == CHOOSE x \in paths : TRUE
         IN  categorizeAll(paths \ {path}, categorizeFileChange(path, changes))

\* a slip in diffFiles: the loop over the cached paths left out
diffFilesNoDeleted(currentFiles, cachedHashes) ==
    LET IsAdded(f) == f.Path \notin DOMAIN cachedHashes
        IsModified(f) == /\ f.Path \in DOMAIN cachedHashes
                         /\ HashFileContent(f.Content) # cachedHashes[f.Path]
        added == SelectSeq(currentFiles, IsAdded)
        modified == SelectSeq(currentFiles, IsModified)
    IN  categorizeAll({added[i].Path : i \in DOMAIN added}
                          \cup {modified[i].Path : i \in DOMAIN modified},
                      [NoChanges EXCEPT !.Added = added, !.Modified = modified])

diffFiles(currentFiles, cachedHashes) ==
    LET IsAdded(f) == f.Path \notin DOMAIN cachedHashes
        IsModified(f) == /\ f.Path \in DOMAIN cachedHashes
                         /\ HashFileContent(f.Content) # cachedHashes[f.Path]
        added == SelectSeq(currentFiles, IsAdded)
        modified == SelectSeq(currentFiles, IsModified)
        deleted == DOMAIN cachedHashes
                       \ {currentFiles[i].Path : i \in DOMAIN currentFiles}
    IN  categorizeAll({added[i].Path : i \in DOMAIN added}
                          \cup {modified[i].Path : i \in DOMAIN modified}
                          \cup deleted,
                      [NoChanges EXCEPT !.Added = added, !.Modified = modified,
                                        !.Deleted = deleted])

\* findMainFile / extractMainContent: the path of the main file, "" if none.
\* Every .tex file of FileLists holds a \documentclass, so the first .tex
\* file is the main file.
MainFilePath(files) ==
    IF \E i \in DOMAIN files : HasSuffixTex(files[i].Path)
    THEN files[CHOOSE i \in DOMAIN files :
                 /\ HasSuffixTex(files[i].Path)
                 /\ \A j \in DOMAIN files : HasSuffixTex(files[j].Path) => i <= j].Path
    ELSE ""

\* --------------------------------------------------------------- variables
VARIABLES
    entries,        \* CompilationCache.entries: projectID -> CacheEntry
    projectLocks,   \* CompilationCache.projectLocks: projectID -> mutex
    locked,         \* the mutexes that are locked
    disk,           \* the workspace directories that exist -> their content
    now,            \* the clock read by time.Now()
    cacheLog,       \* the last eviction line the cache logged
    pc,             \* where each worker is in Compile
    job,            \* the job each worker is processing
    lock,           \* LockProject's local `lock`, per worker
    sess,           \* the compileSession of each worker
    result,         \* the CompileResult each worker sent last
    jobs,           \* number of jobs this run still takes from the queue
    used,           \* number of project ids requests have named so far
    crashed,        \* the runtime raised a fatal error
    requests,       \* the HTTP requests that arrived, each with its reply channel
    requestQueue,   \* the buffer of the channel requestQueue: indices of requests
    cur,            \* the request whose job each worker is handling, 0 if none
    outside,        \* the paths outside every workspace that were written
    call            \* the last call of a pure helper: its arguments and result

vars == <<entries, projectLocks, locked, disk, now, cacheLog, pc, job, lock,
          sess, result, jobs, used, crashed, requests, requestQueue, cur,
          outside, call>>

\* the HTTP side: the handlers' requests, the queue, the workers' current job
webVars == <<requests, requestQueue, cur>>

cacheVars == <<entries, projectLocks, disk, now, cacheLog>>

NoJob == [ProjectID |-> "", Files |-> << >>]

NewSession ==
    [tempDir |-> NoDir, isIncremental |-> FALSE, shouldCleanup |-> TRUE,
     fileChanges |-> NoChanges, exitCode |-> 0, pdfData |-> NoPdf,
     created |-> NoDir, stamp |-> 0, producedPdf |-> FALSE]

NoResult ==
    [Kind |-> "none", Success |-> FALSE, CacheHit |-> FALSE, PDFData |-> NoPdf,
     SHA256 |-> << >>, ErrorMessage |-> "", ServedHash |-> << >>]

ErrorResult(msg) == [NoResult EXCEPT !.Kind = "error", !.ErrorMessage = msg]

NoCall == [fn |-> "none"]

Requests == [ProjectID : Projects \cup {""}, Files : FileLists]

\* the state after construction: an empty cache, idle workers
Init ==
    /\ entries = << >>
    /\ projectLocks = << >>
    /\ locked = {}
    /\ disk = << >>
    /\ now = 0
    /\ cacheLog = [kind |-> "none", ids |-> {}]
    /\ pc = [w \in Workers |-> "idle"]
    /\ job = [w \in Workers |-> NoJob]
    /\ lock = [w \in Workers |-> NoMutex]
    /\ sess = [w \in Workers |-> NewSession]
    /\ result = [w \in Workers |-> NoResult]
    /\ jobs = MaxJobs
    /\ used = 0
    /\ crashed = FALSE
    /\ requests = << >>
    /\ requestQueue = << >>
    /\ cur = [w \in Workers |-> 0]
    /\ outside = {}
    /\ call = NoCall

\* ------------------------------------------------------------ map helpers
Put(f, k, v) == [x \in DOMAIN f \cup {k} |-> IF x = k THEN v ELSE f[x]]
Del(f, ks) == [x \in DOMAIN f \ ks |-> f[x]]

\* ------------------------------------------------------------------- cache
\* The cache as one value, for the operators that run under globalMutex.
CacheState == [entries |-> entries, projectLocks |-> projectLocks,
               disk |-> disk, cacheLog |-> cacheLog]

\* removeEntryLocked, first half: os.RemoveAll(entry.TempDir) for an entry
\* with a directory; rmOk is false when os.RemoveAll returns an error, which
\* is logged and leaves the directory in place
releaseWorkspace(c, projectID, rmOk) ==
    IF /\ projectID \in DOMAIN c.entries
       /\ c.entries[projectID].TempDir # NoDir
       /\ rmOk
    THEN [c EXCEPT !.disk = Del(c.disk, {c.entries[projectID].TempDir})]
    ELSE c

\* removeEntryLocked, second half: delete(c.entries, id) and
\* delete(c.projectLocks, id)
forgetEntry(c, projectID) ==
    [c EXCEPT !.entries = Del(c.entries, {projectID}),
              !.projectLocks = Del(c.projectLocks, {projectID})]

\* a slip in removeEntryLocked: a return when os.RemoveAll fails
removeEntryKeepOnError(c, projectID, rmOk) ==
    IF rmOk THEN forgetEntry(releaseWorkspace(c, projectID, rmOk), projectID) ELSE c

\* removeEntryLocked with the outcome of os.RemoveAll
removeEntryLockedIO(c, projectID, rmOk) ==
    forgetEntry(releaseWorkspace(c, projectID, rmOk), projectID)

\* removeEntryLocked on a file system where os.RemoveAll succeeds
removeEntryLocked(c, projectID) == removeEntryLockedIO(c, projectID, TRUE)

\* a slip in evictOldestLocked's comparison: After instead of Before
NewestIDs(es) ==
    {id \in DOMAIN es :
        \A other \in DOMAIN es : es[other].LastAccessTime <= es[id].LastAccessTime}

\* evictOldestLocked's choice: the ids no other entry is strictly older than
OldestIDs(es) ==
    {id \in DOMAIN es :
        \A other \in DOMAIN es : es[other].LastAccessTime >= es[id].LastAccessTime}

\* evictOldestLocked, for the id its loop ends with
evictOldestLocked(c, oldestID) ==
    [removeEntryLocked(c, oldestID) EXCEPT
        !.cacheLog = [kind |-> "lru", ids |-> {oldestID}]]

\* a slip in Set's test: the test that the project is not cached left out
NeedsEvictionOnReplace(es, projectID) ==
    Cardinality(DOMAIN es) >= MaxCachedProjects

\* a slip in Set's test: > instead of >=
NeedsEvictionOffByOne(es, projectID) ==
    /\ Cardinality(DOMAIN es) > MaxCachedProjects
    /\ projectID \notin DOMAIN es

\* Set's test: len(c.entries) >= MaxCachedProjects and projectID not cached
NeedsEviction(es, projectID) ==
    /\ Cardinality(DOMAIN es) >= MaxCachedProjects
    /\ projectID \notin DOMAIN es

\* a slip in Set: the test of the empty project id left out
SetLockedAnyID(c, projectID, entry, oldestID) ==
    LET c1 == IF NeedsEviction(c.entries, projectID) /\ oldestID # ""
              THEN evictOldestLocked(c, oldestID)
              ELSE c
    IN  [c1 EXCEPT !.entries = Put(c1.entries, projectID, entry)]

\* Set, after entry.LastAccessTime = time.Now(): the cache once the entry is
\* in; Set returns at once when the project id is empty
SetLocked(c, projectID, entry, oldestID) ==
    IF projectID = "" THEN c
    ELSE LET c1 == IF NeedsEviction(c.entries, projectID) /\ oldestID # ""
                   THEN evictOldestLocked(c, oldestID)
                   ELSE c
         IN  [c1 EXCEPT !.entries = Put(c1.entries, projectID, entry)]

\* a slip in cleanup's test: >= instead of >
ExpiredAtBound(es, t) ==
    {id \in DOMAIN es : t - es[id].LastAccessTime >= CacheExpirationTime}

\* the ids whose entry cleanup collects in toRemove
Expired(es, t) == {id \in DOMAIN es : t - es[id].LastAccessTime > CacheExpirationTime}

RECURSIVE RemoveAllLocked(_, _)
RemoveAllLocked(c, ids) ==
    IF ids = {} THEN c
    ELSE LET id == CHOOSE x \in ids : TRUE
         IN  RemoveAllLocked(removeEntryLocked(c, id), ids \ {id})

\* Get's touch: entry.LastAccessTime = time.Now() when the entry exists; Get
\* returns at once when the project id is empty
Touch(es, projectID, t) ==
    IF projectID # "" /\ projectID \in DOMAIN es
    THEN [es EXCEPT ![projectID].LastAccessTime = t]
    ELSE es

\* A read of time.Now() that stamps an entry: stamps are strictly increasing.
CanStamp == now < MaxTime

\* ------------------------------------------------------------- the sweeper
\* cleanup (cache.go): under globalMutex, remove every expired entry
CacheCleanup ==
    /\ ~crashed
    /\ LET toRemove == Expired(entries, now)
           c == RemoveAllLocked(CacheState, toRemove)
       IN  /\ toRemove # {}
           /\ entries' = c.entries
           /\ projectLocks' = c.projectLocks
           /\ disk' = c.disk
           /\ cacheLog' = [kind |-> "expired", ids |-> toRemove]
    /\ UNCHANGED <<locked, now, pc, job, lock, sess, result, jobs, used, crashed>>
    /\ UNCHANGED <<webVars, outside, call>>

\* time passes between two steps (it matters while an entry has not expired)
Tick ==
    /\ ~crashed
    /\ now < MaxTime
    /\ Expired(entries, now) # DOMAIN entries
    /\ now' = now + 1
    /\ UNCHANGED <<entries, projectLocks, locked, disk, cacheLog, pc, job, lock,
                   sess, result, jobs, used, crashed>>
    /\ UNCHANGED <<webVars, outside, call>>

\* ------------------------------------------------------ the compile session
Project(w) == job[w].ProjectID

\* Compile's return statement chose res; the deferred calls that touch only
\* the session have run, the deferred UnlockProject has not
Return(w, res) ==
    /\ result' = [result EXCEPT ![w] = res]
    /\ pc' = [pc EXCEPT ![w] = "finish"]

\* directory names and mutex addresses are fresh: the least value nothing uses
UsedDirs ==
    DOMAIN disk \cup {entries[p].TempDir : p \in DOMAIN entries}
                \cup {sess[w].tempDir : w \in Workers}
UsedMutexes ==
    locked \cup {projectLocks[p] : p \in DOMAIN projectLocks}
           \cup {lock[w] : w \in Workers}
Fresh(taken) == CHOOSE n \in 1..(Cardinality(taken) + 1) :
                  n \notin taken /\ \A m \in 1..(n - 1) : m \in taken

\* LockProject under globalMutex: the map after the project's mutex was
\* allocated if it had none; LockProject returns at once when the project id
\* is empty
LockProjectMap(locks, projectID, fresh) ==
    IF projectID = "" \/ projectID \in DOMAIN locks
    THEN locks ELSE Put(locks, projectID, fresh)

\* worker: a job comes off the queue; newCompileSession; Compile calls
\* LockProject, which keeps a pointer to the mutex of the map
DequeueFrom(w, posted) ==
    /\ ~crashed
    /\ pc[w] = "idle"
    /\ jobs > 0
    /\ jobs' = jobs - 1
    /\ \E r \in posted :
          /\ r.ProjectID \in {""} \cup {ProjectSeq[i] : i \in 1..used}
                               \cup {ProjectSeq[i] : i \in {used + 1} \cap DOMAIN ProjectSeq}
          /\ used' = IF r.ProjectID \in {""} \cup {ProjectSeq[i] : i \in 1..used}
                     THEN used ELSE used + 1
          /\ job' = [job EXCEPT ![w] = r]
          /\ IF r.ProjectID = ""
             THEN /\ pc' = [pc EXCEPT ![w] = "attach"]
                  /\ UNCHANGED <<projectLocks, lock>>
             ELSE /\ projectLocks' = LockProjectMap(projectLocks, r.ProjectID,
                                                    Fresh(UsedMutexes))
                  /\ lock' = [lock EXCEPT ![w] = projectLocks'[r.ProjectID]]
                  /\ pc' = [pc EXCEPT ![w] = "lockWait"]
    /\ UNCHANGED <<entries, locked, disk, now, cacheLog, sess, result, crashed>>
    /\ UNCHANGED <<webVars, outside, call>>

Dequeue(w) == DequeueFrom(w, Requests)

\* LockProject, lock.Lock(): blocks while the mutex is locked
LockAcquire(w) ==
    /\ ~crashed
    /\ pc[w] = "lockWait"
    /\ lock[w] \notin locked
    /\ locked' = locked \cup {lock[w]}
    /\ pc' = [pc EXCEPT ![w] = "check"]
    /\ UNCHANGED <<entries, projectLocks, disk, now, cacheLog, job, lock, sess,
                   result, jobs, used, crashed>>
    /\ UNCHANGED <<webVars, outside, call>>

\* a slip in cache.CheckContentHash: the comparison left out
ContentHashAlwaysMatches(es, projectID, contentHash) == projectID \in DOMAIN es

\* what cache.CheckContentHash returns
ContentHashMatches(es, projectID, contentHash) ==
    /\ projectID \in DOMAIN es
    /\ es[projectID].ContentHash = contentHash

\* tryServeCachedPDF, first half: cache.CheckContentHash (a Get, then the
\* comparison with the entry that Get returned)
CheckContentHash(w) ==
    /\ ~crashed
    /\ pc[w] = "check"
    /\ IF Project(w) \in DOMAIN entries
       THEN /\ CanStamp
            /\ entries' = Touch(entries, Project(w), now)
            /\ now' = now + 1
            /\ pc' = [pc EXCEPT ![w] =
                        IF ContentHashMatches(entries, Project(w),
                                              HashFileSet(job[w].Files))
                        THEN "serve" ELSE "attach"]
       ELSE /\ pc' = [pc EXCEPT ![w] = "attach"]
            /\ UNCHANGED <<entries, now>>
    /\ UNCHANGED <<projectLocks, locked, disk, cacheLog, job, lock, sess, result,
                   jobs, used, crashed>>
    /\ UNCHANGED <<webVars, outside, call>>

\* tryServeCachedPDF, second half: cache.Get and the result built from the
\* entry it returns
ServeCached(w) ==
    /\ ~crashed
    /\ pc[w] = "serve"
    /\ IF Project(w) \in DOMAIN entries
       THEN /\ CanStamp
            /\ entries' = Touch(entries, Project(w), now)
            /\ now' = now + 1
            /\ LET entry == entries[Project(w)]
               IN  IF Len(entry.LastPDFData) = 0
                   THEN /\ pc' = [pc EXCEPT ![w] = "attach"]
                        /\ UNCHANGED result
                   ELSE Return(w, [Kind |-> "hit", Success |-> TRUE, CacheHit |-> TRUE,
                                   PDFData |-> entry.LastPDFData,
                                   SHA256 |-> entry.LastSHA256,
                                   ErrorMessage |-> "",
                                   ServedHash |-> entry.ContentHash])
       ELSE /\ pc' = [pc EXCEPT ![w] = "attach"]
            /\ UNCHANGED <<entries, now, result>>
    /\ UNCHANGED <<projectLocks, locked, disk, cacheLog, job, lock, sess, jobs, used, crashed>>
    /\ UNCHANGED <<webVars, outside, call>>

\* the session once Compile has returned: only what the workspace checks read
Ended(s) == [s EXCEPT !.fileChanges = NoChanges, !.exitCode = 0, !.pdfData = NoPdf,
                      !.stamp = 0, !.producedPdf = FALSE]

EmptyDir == [files |-> << >>, pdf |-> NoPdf]

\* prepareWorkspace, first half: attachCachedTempDir (cache.Get, os.Stat),
\* ensureTempDir (os.MkdirTemp) and resolveMainFilePaths
PrepareWorkspace(w) ==
    /\ ~crashed
    /\ pc[w] = "attach"
    /\ LET p == Project(w)
           cached == p # "" /\ p \in DOMAIN entries
           attached == /\ cached
                       /\ entries[p].TempDir # NoDir
                       /\ entries[p].TempDir \in DOMAIN disk
           dir == Fresh(UsedDirs \ {NoDir})
           noMain == MainFilePath(job[w].Files) = ""
       IN  /\ IF cached
              THEN /\ CanStamp
                   /\ entries' = Touch(entries, p, now)
                   /\ now' = now + 1
              ELSE UNCHANGED <<entries, now>>
           /\ IF attached
              THEN LET s == [sess[w] EXCEPT
                                !.tempDir = entries[p].TempDir,
                                !.isIncremental = TRUE,
                                !.shouldCleanup = FALSE,
                                !.fileChanges = diffFiles(job[w].Files, entries[p].FileHashes)]
                   IN  /\ disk' = disk
                       /\ IF noMain
                          THEN /\ sess' = [sess EXCEPT ![w] = Ended(s)]
                               /\ Return(w, ErrorResult("No LaTeX source (.tex) file found in request"))
                          ELSE /\ sess' = [sess EXCEPT ![w] = s]
                               /\ pc' = [pc EXCEPT ![w] = "sync"]
                               /\ UNCHANGED result
              ELSE \E mkdirOk \in BOOLEAN :
                     IF ~mkdirOk
                     THEN /\ Return(w, ErrorResult("Failed to create temp directory"))
                          /\ UNCHANGED <<disk, sess>>
                     ELSE LET s == [sess[w] EXCEPT
                                       !.tempDir = dir,
                                       !.created = dir,
                                       !.shouldCleanup = (p = "")]
                          IN  /\ disk' = Put(disk, dir, EmptyDir)
                              /\ IF noMain
                                 THEN /\ sess' = [sess EXCEPT ![w] = Ended(s)]
                                      /\ Return(w, ErrorResult("No LaTeX source (.tex) file found in request"))
                                 ELSE /\ sess' = [sess EXCEPT ![w] = s]
                                      /\ pc' = [pc EXCEPT ![w] = "sync"]
                                      /\ UNCHANGED result
    /\ UNCHANGED <<projectLocks, locked, cacheLog, job, lock, jobs, used, crashed>>
    /\ UNCHANGED <<webVars, outside, call>>

\* writeFile for each file of a list: os.MkdirAll, os.WriteFile
RECURSIVE WriteFiles(_, _)
WriteFiles(content, files) ==
    IF files = << >> THEN content
    ELSE WriteFiles(Put(content, Head(files).Path, Head(files).Content), Tail(files))

\* the components of a slash-separated path, for the paths requests use
PathParts(path) ==
    CASE path = "../evil.sty" -> <<"..", "evil.sty">>
      [] path = "/abs.sty" -> <<"", "abs.sty">>
      [] OTHER -> <<path>>

\* filepath.Join(tempDir, path), which ends with filepath.Clean: the result
\* relative to tempDir, `up` levels above it and then down `rest`
RECURSIVE Clean(_, _)
Clean(at, parts) ==
    IF parts = << >> THEN at
    ELSE LET h == Head(parts)
             next == IF h \in {"", "."} THEN at
                     ELSE IF h = ".."
                     THEN IF at.rest = << >>
                          THEN [at EXCEPT !.up = at.up + 1]
                          ELSE [at EXCEPT !.rest = SubSeq(at.rest, 1, Len(at.rest) - 1)]
                     ELSE [at EXCEPT !.rest = Append(at.rest, h)]
         IN  Clean(next, Tail(parts))

JoinPath(path) == Clean([up |-> 0, rest |-> << >>], PathParts(path))

\* the joined path lies outside tempDir
Escapes(path) == JoinPath(path).up > 0

\* syncFilesToWorkspace: the files it writes (updateCachedFiles writes the
\* added and the modified files, createFileStructure every file)
FilesToWrite(s, files) ==
    IF s.isIncremental THEN s.fileChanges.Added \o s.fileChanges.Modified ELSE files

\* updateCachedFiles: the paths it hands to os.Remove
PathsToDelete(s) == IF s.isIncremental THEN s.fileChanges.Deleted ELSE {}

\* a slip in prepareWorkspace: removeStaleOutputs left out
SyncedDiskKeepsOutputs(d, s, files) ==
    LET dir == s.tempDir
        old == IF dir \in DOMAIN d THEN d[dir].files ELSE << >>
        oldPdf == IF dir \in DOMAIN d THEN d[dir].pdf ELSE NoPdf
        Inside(f) == ~Escapes(f.Path)
        toWrite == FilesToWrite(s, files)
    IN  IF toWrite = << >> /\ dir \notin DOMAIN d
        THEN d
        ELSE Put(d, dir, [files |-> Del(WriteFiles(old, SelectSeq(toWrite, Inside)),
                                        PathsToDelete(s)),
                          pdf |-> oldPdf])

\* the directory after syncFilesToWorkspace and removeStaleOutputs wrote to it
\* (os.MkdirAll makes the directory again when it is gone)
SyncedDisk(d, s, files) ==
    LET dir == s.tempDir
        old == IF dir \in DOMAIN d THEN d[dir].files ELSE << >>
        Inside(f) == ~Escapes(f.Path)
        toWrite == FilesToWrite(s, files)
    IN  IF toWrite = << >> /\ dir \notin DOMAIN d
        THEN d
        ELSE Put(d, dir, [files |-> Del(WriteFiles(old, SelectSeq(toWrite, Inside)),
                                        PathsToDelete(s)),
                          pdf |-> NoPdf])

\* the paths outside tempDir that syncFilesToWorkspace writes or unlinks
OutsideTouched(s, files) ==
    LET toWrite == FilesToWrite(s, files)
    IN  {JoinPath(toWrite[i].Path) : i \in {j \in DOMAIN toWrite : Escapes(toWrite[j].Path)}}
        \cup {JoinPath(path) : path \in {q \in PathsToDelete(s) : Escapes(q)}}

\* prepareWorkspace, second half: syncFilesToWorkspace, removeStaleOutputs
SyncFiles(w) ==
    /\ ~crashed
    /\ pc[w] = "sync"
    /\ \E writeOk \in BOOLEAN :
          IF writeOk
          THEN /\ disk' = SyncedDisk(disk, sess[w], job[w].Files)
               /\ outside' = outside \cup OutsideTouched(sess[w], job[w].Files)
               /\ pc' = [pc EXCEPT ![w] = "run"]
               /\ UNCHANGED <<sess, result>>
          ELSE /\ sess' = [sess EXCEPT ![w] = Ended(sess[w])]
               /\ Return(w, ErrorResult("Failed to write files"))
               /\ UNCHANGED <<disk, outside>>
    /\ UNCHANGED <<entries, projectLocks, locked, now, cacheLog, job, lock, jobs, used, crashed>>
    /\ UNCHANGED <<webVars, call>>

\* what a toolchain run can end with: the <job>.pdf it leaves, its exit code
ToolOutcomes == {<<"valid", 0>>, <<"valid", 2>>, <<"valid", 3>>,
                 <<"invalid", 0>>, <<"none", 1>>}

\* what the toolchain leaves as <job>.pdf
ToolPdf(kind, dirContent) ==
    CASE kind = "valid" -> <<"%PDF", dirContent.files>>
      [] kind = "invalid" -> <<"junk">>
      [] OTHER -> dirContent.pdf

\* runCompilation: the toolchain runs in the workspace; it cannot start when
\* the directory is gone (recordExitCode then records -1)
RunCompilation(w) ==
    /\ ~crashed
    /\ pc[w] = "run"
    /\ LET dir == sess[w].tempDir
       IN  IF dir \notin DOMAIN disk
           THEN /\ sess' = [sess EXCEPT ![w].exitCode = -1]
                /\ UNCHANGED disk
           ELSE \E out \in ToolOutcomes :
                   /\ disk' = [disk EXCEPT ![dir].pdf = ToolPdf(out[1], disk[dir])]
                   /\ sess' = [sess EXCEPT ![w].exitCode = out[2],
                                           ![w].producedPdf = (out[1] # "none")]
    /\ pc' = [pc EXCEPT ![w] = "read"]
    /\ UNCHANGED <<entries, projectLocks, locked, now, cacheLog, job, lock, result,
                   jobs, used, crashed>>
    /\ UNCHANGED <<webVars, outside, call>>

\* compileSession.cleanup, deferred in Compile
SessionCleanup(d, s) ==
    IF s.shouldCleanup /\ s.tempDir # NoDir THEN Del(d, {s.tempDir}) ELSE d

\* a slip in finalize: the test of the exit code left out
ExitCodeNeverFails(code) == FALSE

\* a slip in finalize's test of the exit code: 3 instead of 2
ExitCodeFailsAbove3(code) == code > 3

\* finalize's test of the exit code: the compile failed
ExitCodeFails(code) == code > 2

\* finalize up to the cache store: os.ReadFile(pdfPath), the %PDF test and the
\* exit-code policy.  A return from here runs the deferred cleanup.
FinalizeRead(w) ==
    /\ ~crashed
    /\ pc[w] = "read"
    /\ LET dir == sess[w].tempDir
           readOk == dir \in DOMAIN disk /\ disk[dir].pdf # NoPdf
           pdfData == disk[dir].pdf
           fail(msg) == /\ sess' = [sess EXCEPT ![w] = Ended(sess[w])]
                        /\ disk' = SessionCleanup(disk, sess[w])
                        /\ Return(w, ErrorResult(msg))
       IN  IF ~readOk THEN fail("PDF file not generated")
           ELSE IF pdfData[1] # "%PDF" THEN fail("Invalid PDF format")
           ELSE IF ExitCodeFails(sess[w].exitCode) THEN fail("LaTeX toolchain exited with code")
           ELSE IF Project(w) # ""
           THEN /\ sess' = [sess EXCEPT ![w].pdfData = pdfData]
                /\ pc' = [pc EXCEPT ![w] = "store"]
                /\ UNCHANGED <<disk, result>>
           ELSE /\ sess' = [sess EXCEPT ![w] = Ended(sess[w])]
                /\ disk' = SessionCleanup(disk, sess[w])
                /\ Return(w, [Kind |-> "ok", Success |-> TRUE, CacheHit |-> FALSE,
                              PDFData |-> pdfData, SHA256 |-> Sha256(pdfData),
                              ErrorMessage |-> "", ServedHash |-> << >>])
    /\ UNCHANGED <<entries, projectLocks, locked, now, cacheLog, job, lock, jobs, used, crashed>>
    /\ UNCHANGED <<webVars, outside, call>>

\* the CacheEntry finalize builds
NewEntry(w) ==
    [ProjectID |-> Project(w),
     TempDir |-> sess[w].tempDir,
     FileHashes |-> buildFileHashMap(job[w].Files),
     ContentHash |-> HashFileSet(job[w].Files),
     LastPDFData |-> sess[w].pdfData,
     LastSHA256 |-> Sha256(sess[w].pdfData),
     LastAccessTime |-> sess[w].stamp]

\* finalize, the cache store, first half: the entry is built and cache.Set
\* stamps it, entry.LastAccessTime = time.Now(), before it takes globalMutex
SetStamp(w) ==
    /\ ~crashed
    /\ pc[w] = "store"
    /\ CanStamp
    /\ sess' = [sess EXCEPT ![w].stamp = now]
    /\ now' = now + 1
    /\ pc' = [pc EXCEPT ![w] = "insert"]
    /\ UNCHANGED <<entries, projectLocks, locked, disk, cacheLog, job, lock, result,
                   jobs, used, crashed>>
    /\ UNCHANGED <<webVars, outside, call>>

\* finalize, the cache store, second half: cache.Set under globalMutex, then
\* the success result; the deferred cleanup runs and removes nothing
\* (shouldCleanup is false with a project id)
SetInsert(w) ==
    /\ ~crashed
    /\ pc[w] = "insert"
    /\ \E oldestID \in IF NeedsEviction(entries, Project(w))
                       THEN OldestIDs(entries) ELSE {""} :
          LET c == SetLocked(CacheState, Project(w), NewEntry(w), oldestID)
              d == SessionCleanup(c.disk, sess[w])
          IN  /\ entries' = c.entries
              /\ projectLocks' = c.projectLocks
              /\ disk' = d
              /\ cacheLog' = c.cacheLog
    /\ sess' = [sess EXCEPT ![w] = Ended(sess[w])]
    /\ Return(w, [Kind |-> "ok", Success |-> TRUE, CacheHit |-> FALSE,
                  PDFData |-> sess[w].pdfData, SHA256 |-> Sha256(sess[w].pdfData),
                  ErrorMessage |-> "", ServedHash |-> << >>])
    /\ UNCHANGED <<locked, now, job, lock, jobs, used, crashed>>
    /\ UNCHANGED <<webVars, outside, call>>

\* UnlockProject under globalMutex (read): the mutex it unlocks, NoMutex if
\* the map holds none for the project or the project id is empty
MutexToUnlock(locks, projectID) ==
    IF projectID # "" /\ projectID \in DOMAIN locks THEN locks[projectID] ELSE NoMutex

\* Compile's deferred UnlockProject (with a project id), then HandleCompilation
\* sends the result and the worker waits for the next job.  Unlocking a mutex
\* that is not locked is a fatal runtime error.
Finish(w) ==
    /\ ~crashed
    /\ pc[w] = "finish"
    /\ LET m == IF Project(w) = "" THEN NoMutex
                ELSE MutexToUnlock(projectLocks, Project(w))
       IN  IF m # NoMutex /\ m \notin locked
           THEN /\ crashed' = TRUE
                /\ UNCHANGED <<locked, pc, job, lock, sess, result, requests, cur>>
           ELSE /\ locked' = locked \ {m}
                /\ pc' = [pc EXCEPT ![w] = "idle"]
                /\ job' = [job EXCEPT ![w] = NoJob]
                /\ lock' = [lock EXCEPT ![w] = NoMutex]
                /\ sess' = [sess EXCEPT ![w] = NewSession]
                /\ result' = [result EXCEPT ![w] = NoResult]
                /\ cur[w] # 0 => Len(requests[cur[w]].resultChan) < ResultChanCapacity
                /\ requests' = IF cur[w] = 0 THEN requests
                               ELSE [requests EXCEPT ![cur[w]].resultChan =
                                        Append(@, result[w])]
                /\ cur' = [cur EXCEPT ![w] = 0]
                /\ UNCHANGED crashed
    /\ UNCHANGED <<entries, projectLocks, disk, now, cacheLog, jobs, used>>
    /\ UNCHANGED <<requestQueue, outside, call>>

\* the locks the next step of worker w acquires, in the order in which the
\* code of that step acquires them (each is released before the step ends,
\* except the project lock)
LocksTaken(w) ==
    LET cached == Project(w) \in DOMAIN entries
    IN  CASE pc[w] = "lockWait" -> <<"project">>
          [] pc[w] = "check" ->
                IF cached THEN <<"global", "entry", "entry">> ELSE <<"global">>
          [] pc[w] = "serve" -> IF cached THEN <<"global", "entry">> ELSE <<"global">>
          [] pc[w] = "attach" ->
                IF Project(w) = "" THEN << >>
                ELSE IF cached THEN <<"global", "entry">> ELSE <<"global">>
          [] pc[w] = "insert" ->
                IF NeedsEviction(entries, Project(w))
                THEN <<"global", "entry">> ELSE <<"global">>
          [] pc[w] = "finish" -> IF Project(w) = "" THEN << >> ELSE <<"global">>
          [] OTHER -> << >>

\* a slip in LockProject: lock.Lock() before globalMutex.Unlock()
LockWaitsUnderGuard(w) ==
    IF pc[w] = "lockWait"
    THEN <<[lock |-> "project", held |-> {"global"}]>>
    ELSE << >>

\* the lock calls of the next step of worker w that can block, in the order of
\* the code, each with the locks the worker holds when it makes the call.  The
\* first half of LockProject (globalMutex.Lock() to globalMutex.Unlock()) is
\* the step before "lockWait"; lock.Lock() is the step at "lockWait".  From
\* there until the deferred UnlockProject the worker holds its project lock.
LockWaits(w) ==
    LET cached == Project(w) \in DOMAIN entries
        own == IF Project(w) # "" /\ pc[w] \notin {"idle", "lockWait"}
               THEN {"project"} ELSE {}
        global == [lock |-> "global", held |-> own]
        entryUnderGuard == [lock |-> "entry", held |-> own \cup {"global"}]
        entryAlone == [lock |-> "entry", held |-> own]
    IN  CASE pc[w] = "idle" -> <<global>>
          [] pc[w] = "lockWait" -> <<[lock |-> "project", held |-> {}]>>
          [] pc[w] = "check" ->
                IF cached THEN <<global, entryUnderGuard, entryAlone>> ELSE <<global>>
          [] pc[w] = "serve" -> IF cached THEN <<global, entryUnderGuard>> ELSE <<global>>
          [] pc[w] = "attach" ->
                IF Project(w) = "" THEN << >>
                ELSE IF cached THEN <<global, entryUnderGuard>> ELSE <<global>>
          [] pc[w] = "insert" ->
                IF NeedsEviction(entries, Project(w))
                THEN <<global, entryUnderGuard>> ELSE <<global>>
          [] pc[w] = "finish" -> IF Project(w) = "" THEN << >> ELSE <<global>>
          [] OTHER -> << >>

\* the lock calls of cleanup that can block: globalMutex.Lock(), then
\* entry.mutex.Lock() for each entry
SweepLockWaits ==
    IF DOMAIN entries = {}
    THEN <<[lock |-> "global", held |-> {}]>>
    ELSE <<[lock |-> "global", held |-> {}],
           [lock |-> "entry", held |-> {"global"}]>>

\* ------------------------------------------------------------ specification
Next ==
    \/ \E w \in Workers : Dequeue(w)
    \/ \E w \in Workers : LockAcquire(w)
    \/ \E w \in Workers : CheckContentHash(w)
    \/ \E w \in Workers : ServeCached(w)
    \/ \E w \in Workers : PrepareWorkspace(w)
    \/ \E w \in Workers : SyncFiles(w)
    \/ \E w \in Workers : RunCompilation(w)
    \/ \E w \in Workers : FinalizeRead(w)
    \/ \E w \in Workers : SetStamp(w)
    \/ \E w \in Workers : SetInsert(w)
    \/ \E w \in Workers : Finish(w)
    \/ CacheCleanup
    \/ Tick

Spec == Init /\ [][Next]_vars

\* --------------------------------------------- one project that is edited
\* the requests of a user who edits one project: a document with its
\* bibliography, the document changed and without the bibliography, and the
\* first document without the bibliography, compiled one after another within
\* one period of the sweeper's ticker (no sweep and no expiry in between)
FileAR == << [Path |-> "main.tex", Content |-> "A"],
             [Path |-> "refs.bib", Content |-> "R"] >>
EditRequests == [ProjectID : {"p1"}, Files : {FileAR, FileB, FileA}]

DequeueEdit(w) == DequeueFrom(w, EditRequests)

NextEdit ==
    \/ \E w \in Workers : DequeueEdit(w)
    \/ \E w \in Workers : LockAcquire(w)
    \/ \E w \in Workers : CheckContentHash(w)
    \/ \E w \in Workers : ServeCached(w)
    \/ \E w \in Workers : PrepareWorkspace(w)
    \/ \E w \in Workers : SyncFiles(w)
    \/ \E w \in Workers : RunCompilation(w)
    \/ \E w \in Workers : FinalizeRead(w)
    \/ \E w \in Workers : SetStamp(w)
    \/ \E w \in Workers : SetInsert(w)
    \/ \E w \in Workers : Finish(w)

SpecEdit == Init /\ [][NextEdit]_vars

\* ------------------------------------------------- the server and its queue
\* what clients post in a run with the queue: one project, a file list with
\* a main file or one without
WebRequests == [ProjectID : {"p1"}, Files : {FileBib, FileEsc}]

NewRequest(r, status) ==
    [ProjectID |-> r.ProjectID, Files |-> r.Files, status |-> status,
     resultChan |-> << >>, seq |-> 0]

\* a slip in CompileHandler's capacity check: > instead of >=
QueueFullOffByOne(q) == Len(q) > QueueCapacity

\* CompileHandler's capacity check: len(requestQueue) >= cap(requestQueue)
QueueFull(q) == Len(q) >= QueueCapacity

\* CompileHandler up to the select: the request is parsed, an empty file list
\* is a 400, a full queue a 503; otherwise the job and its ResultChan are made
ArriveFrom(posted) ==
    /\ ~crashed
    /\ Len(requests) < MaxRequests
    /\ \E r \in posted :
          requests' = Append(requests,
              NewRequest(r, IF Len(r.Files) = 0 THEN "400"
                            ELSE IF QueueFull(requestQueue) THEN "503"
                            ELSE "admitted"))
    /\ UNCHANGED <<entries, projectLocks, locked, disk, now, cacheLog, pc, job, lock,
                   sess, result, jobs, used, crashed, requestQueue, cur, outside, call>>

Arrive == ArriveFrom(WebRequests)

\* the number of jobs sent on requestQueue so far
Enqueued == Cardinality({i \in DOMAIN requests : requests[i].seq > 0})

\* CompileHandler's select, case requestQueue <- job
Enqueue(i) ==
    /\ ~crashed
    /\ requests[i].status = "admitted"
    /\ Len(requestQueue) < QueueCapacity
    /\ requestQueue' = Append(requestQueue, i)
    /\ requests' = [requests EXCEPT ![i].status = "queued", ![i].seq = Enqueued + 1]
    /\ UNCHANGED <<entries, projectLocks, locked, disk, now, cacheLog, pc, job, lock,
                   sess, result, jobs, used, crashed, cur, outside, call>>

\* CompileHandler's select, case <-time.After: the send stayed blocked
EnqueueTimeout(i) ==
    /\ ~crashed
    /\ requests[i].status = "admitted"
    /\ Len(requestQueue) >= QueueCapacity
    /\ requests' = [requests EXCEPT ![i].status = "503"]
    /\ UNCHANGED <<entries, projectLocks, locked, disk, now, cacheLog, pc, job, lock,
                   sess, result, jobs, used, crashed, requestQueue, cur, outside, call>>

\* CompileHandler after the send: result := <-job.ResultChan, then the response
Respond(i) ==
    /\ ~crashed
    /\ requests[i].status = "queued"
    /\ requests[i].resultChan # << >>
    /\ requests' = [requests EXCEPT
                      ![i].status = IF Head(requests[i].resultChan).Success
                                    THEN "200" ELSE "500",
                      ![i].resultChan = Tail(@)]
    /\ UNCHANGED <<entries, projectLocks, locked, disk, now, cacheLog, pc, job, lock,
                   sess, result, jobs, used, crashed, requestQueue, cur, outside, call>>

\* worker: for job := range requestQueue; then as Dequeue
DequeueQ(w) ==
    /\ ~crashed
    /\ pc[w] = "idle"
    /\ requestQueue # << >>
    /\ LET i == Head(requestQueue)
           r == [ProjectID |-> requests[i].ProjectID, Files |-> requests[i].Files]
       IN  /\ requestQueue' = Tail(requestQueue)
           /\ cur' = [cur EXCEPT ![w] = i]
           /\ job' = [job EXCEPT ![w] = r]
           /\ IF r.ProjectID = ""
              THEN /\ pc' = [pc EXCEPT ![w] = "attach"]
                   /\ UNCHANGED <<projectLocks, lock>>
              ELSE /\ projectLocks' = LockProjectMap(projectLocks, r.ProjectID,
                                                     Fresh(UsedMutexes))
                   /\ lock' = [lock EXCEPT ![w] = projectLocks'[r.ProjectID]]
                   /\ pc' = [pc EXCEPT ![w] = "lockWait"]
    /\ UNCHANGED <<entries, locked, disk, now, cacheLog, sess, result, jobs, used,
                   crashed, requests, outside, call>>

\* a panic while the toolchain runs: Compile's deferred cleanup runs, the
\* deferred UnlockProject and HandleCompilation's recover follow in Finish
Panic(w) ==
    /\ ~crashed
    /\ pc[w] = "run"
    /\ disk' = SessionCleanup(disk, sess[w])
    /\ sess' = [sess EXCEPT ![w] = Ended(sess[w])]
    /\ Return(w, [NoResult EXCEPT !.Kind = "panic",
                                  !.ErrorMessage = "Internal server error"])
    /\ UNCHANGED <<entries, projectLocks, locked, now, cacheLog, job, lock, jobs, used,
                   crashed, webVars, outside, call>>

NextQueue ==
    \/ Arrive
    \/ \E i \in DOMAIN requests : Enqueue(i)
    \/ \E i \in DOMAIN requests : EnqueueTimeout(i)
    \/ \E i \in DOMAIN requests : Respond(i)
    \/ \E w \in Workers : DequeueQ(w)
    \/ \E w \in Workers : LockAcquire(w)
    \/ \E w \in Workers : CheckContentHash(w)
    \/ \E w \in Workers : ServeCached(w)
    \/ \E w \in Workers : PrepareWorkspace(w)
    \/ \E w \in Workers : SyncFiles(w)
    \/ \E w \in Workers : RunCompilation(w)
    \/ \E w \in Workers : Panic(w)
    \/ \E w \in Workers : FinalizeRead(w)
    \/ \E w \in Workers : SetStamp(w)
    \/ \E w \in Workers : SetInsert(w)
    \/ \E w \in Workers : Finish(w)
    \/ CacheCleanup
    \/ Tick

SpecQueue == Init /\ [][NextQueue]_vars

\* ------------------------------------------- the server under fair scheduling
\* clients that post one document of one project again and again
LiveRequests == [ProjectID : {"p1"}, Files : {FileA}]

ArriveLive == ArriveFrom(LiveRequests)

NextLive ==
    \/ ArriveLive
    \/ \E i \in DOMAIN requests : Enqueue(i)
    \/ \E i \in DOMAIN requests : EnqueueTimeout(i)
    \/ \E i \in DOMAIN requests : Respond(i)
    \/ \E w \in Workers : DequeueQ(w)
    \/ \E w \in Workers : LockAcquire(w)
    \/ \E w \in Workers : CheckContentHash(w)
    \/ \E w \in Workers : ServeCached(w)
    \/ \E w \in Workers : PrepareWorkspace(w)
    \/ \E w \in Workers : SyncFiles(w)
    \/ \E w \in Workers : RunCompilation(w)
    \/ \E w \in Workers : FinalizeRead(w)
    \/ \E w \in Workers : SetStamp(w)
    \/ \E w \in Workers : SetInsert(w)
    \/ \E w \in Workers : Finish(w)
    \/ CacheCleanup
    \/ Tick

\* the Go scheduler runs every goroutine that can run: a worker that can take
\* its next step takes it (the toolchain it started terminates, a mutex that
\* is free is acquired), and a handler that can send its job or receive its
\* result does so.  Nothing is assumed about clients, the clock or the sweeper.
FairWorkers ==
    \A w \in Workers :
        /\ WF_vars(DequeueQ(w))
        /\ WF_vars(LockAcquire(w))
        /\ WF_vars(CheckContentHash(w))
        /\ WF_vars(ServeCached(w))
        /\ WF_vars(PrepareWorkspace(w))
        /\ WF_vars(SyncFiles(w))
        /\ WF_vars(RunCompilation(w))
        /\ WF_vars(FinalizeRead(w))
        /\ WF_vars(SetStamp(w))
        /\ WF_vars(SetInsert(w))
        /\ WF_vars(Finish(w))

FairHandlers ==
    \A i \in 1..MaxRequests :
        /\ WF_vars(i \in DOMAIN requests /\ Enqueue(i))
        /\ WF_vars(i \in DOMAIN requests /\ EnqueueTimeout(i))
        /\ WF_vars(i \in DOMAIN requests /\ Respond(i))

SpecLive == Init /\ [][NextLive]_vars /\ FairWorkers /\ FairHandlers

\* ------------------------------------------------------- the pure helpers
\* the file lists the helpers are called with: up to MaxFiles files, a path
\* of each kind (.tex, .bib, .ltx, no known extension), contents from two,
\* any order, repeated paths included
PurePaths == {"main.tex", "refs.bib", "old.ltx", "fig.png"}
PureFiles == [Path : PurePaths, Content : {"A", "B"}]
PureFileLists == UNION {[1..n -> PureFiles] : n \in 0..MaxFiles}

\* attachCachedTempDir's call: diffFiles(s.files, entry.FileHashes), with the
\* FileHashes finalize built from the previous file list
CallDiffFiles ==
    /\ call = NoCall
    /\ \E prev, current \in PureFileLists :
          call' = [fn |-> "diffFiles", prev |-> prev, current |-> current,
                   out |-> diffFiles(current, buildFileHashMap(prev))]
    /\ UNCHANGED <<entries, projectLocks, locked, disk, now, cacheLog, pc, job, lock,
                   sess, result, jobs, used, crashed, webVars, outside>>

\* the caches removeEntryLocked is called on: entries of up to two projects,
\* with or without a workspace directory, the directory on disk or not, the
\* project with or without a mutex
PureProjects == {"p1", "p2"}
PureDirs == {1, 2}
PureEntry(p, dir) ==
    [ProjectID |-> p, TempDir |-> dir, FileHashes |-> << >>,
     ContentHash |-> HashFileSet(<< >>), LastPDFData |-> NoPdf,
     LastSHA256 |-> Sha256(NoPdf), LastAccessTime |-> 0]
PureCaches ==
    {[entries |-> [p \in ps |-> PureEntry(p, dirOf[p])],
      projectLocks |-> [p \in ls |-> 1],
      disk |-> [d \in ds |-> EmptyDir],
      cacheLog |-> [kind |-> "none", ids |-> {}]] :
        ps \in SUBSET PureProjects, ls \in SUBSET PureProjects,
        ds \in SUBSET PureDirs, dirOf \in [PureProjects -> PureDirs \cup {NoDir}]}

\* a call of removeEntryLocked (from evictOldestLocked or cleanup), with the
\* cache after os.RemoveAll and the cache it leaves
CallRemoveEntry ==
    /\ call = NoCall
    /\ \E c \in PureCaches, projectID \in PureProjects, rmOk \in BOOLEAN :
          call' = [fn |-> "removeEntryLocked", c |-> c, projectID |-> projectID,
                   rmOk |-> rmOk,
                   released |-> releaseWorkspace(c, projectID, rmOk),
                   out |-> removeEntryLockedIO(c, projectID, rmOk)]
    /\ UNCHANGED <<entries, projectLocks, locked, disk, now, cacheLog, pc, job, lock,
                   sess, result, jobs, used, crashed, webVars, outside>>

\* the content of a file as the request carries it: text, or the base64 text
\* of it when the encoding is base64
Base64Encode(content) ==
    CASE content = "A" -> "b64:A"
      [] content = "C" -> "b64:C"
Base64Decode(text) ==
    CASE text = "b64:A" -> "A"
      [] text = "b64:C" -> "C"

\* strings.Contains(content, "\\documentclass"): of the contents the model
\* uses, "A" and "B" are documents with a \documentclass line, "C" is a
\* chapter without one; no base64 text contains a backslash
ContainsDocclass(content) == content \in {"A", "B"}

\* findMainFile: the first text file ending in .tex that contains
\* \documentclass, else the first text file ending in .tex (fallback)
findMainFile(files) ==
    LET Candidate(i) == /\ files[i].Encoding # "base64"
                        /\ HasSuffix(files[i].Path, ".tex")
        WithDocclass(i) == Candidate(i) /\ ContainsDocclass(files[i].Content)
        First(P(_)) == CHOOSE i \in DOMAIN files :
                          P(i) /\ \A j \in DOMAIN files : P(j) => i <= j
    IN  IF \E i \in DOMAIN files : WithDocclass(i)
        THEN [file |-> files[First(WithDocclass)], hasDocclass |-> TRUE, found |-> TRUE]
        ELSE IF \E i \in DOMAIN files : Candidate(i)
        THEN [file |-> files[First(Candidate)], hasDocclass |-> FALSE, found |-> TRUE]
        ELSE [file |-> [Path |-> "", Content |-> "", Encoding |-> ""],
              hasDocclass |-> FALSE, found |-> FALSE]

\* extractMainContent: s.mainFilePath after findMainFile
mainFilePath(files) ==
    IF findMainFile(files).found THEN findMainFile(files).file.Path ELSE ""

\* the file lists findMainFile is called with: up to MaxFiles files, text or
\* base64, with or without a \documentclass
MainFileEntries ==
    [Path : {"main.tex", "ch1.tex", "refs.bib"}, Content : {"A", "C"}, Encoding : {""}]
    \cup [Path : {"main.tex", "ch1.tex"}, Content : {Base64Encode("A")},
          Encoding : {"base64"}]
MainFileLists == UNION {[1..n -> MainFileEntries] : n \in 0..MaxFiles}

\* logInitialDetails' call of extractMainContent and the test of
\* resolveMainFilePaths: failed means the request ends with the error
\* "No LaTeX source (.tex) file found in request"
CallFindMainFile ==
    /\ call = NoCall
    /\ \E files \in MainFileLists :
          call' = [fn |-> "findMainFile", files |-> files,
                   out |-> findMainFile(files),
                   failed |-> mainFilePath(files) = ""]
    /\ UNCHANGED <<entries, projectLocks, locked, disk, now, cacheLog, pc, job, lock,
                   sess, result, jobs, used, crashed, webVars, outside>>

\* the main documents determineStrategy is called with, by the commands
\* they hold: none, \cite{, \ref{, both, or biblatex with \addbibresource{
StrategyContents == {"D", "D cite", "D ref", "D cite ref", "D biblatex"}

\* strings.Contains(content, cmd) for some cmd of bibCommands
HasBibCommand(content) == content \in {"D cite", "D cite ref", "D biblatex"}

\* strings.Contains(content, cmd) for some cmd of refCommands
HasRefCommand(content) == content \in {"D ref", "D cite ref"}

\* the content names biblatex, a biber backend or a biblatex command
MentionsBiblatex(content) == content \in {"D biblatex"}

\* the content sets backend=bibtex (none of StrategyContents does)
MentionsBackendBibtex(content) == content \in {}

needsBibliography(content, files) ==
    \/ \E i \in DOMAIN files : HasSuffix(files[i].Path, ".bib")
    \/ HasBibCommand(content)

\* detectBibliographyTool: the main content and the text files ending in
\* .tex, .sty or .cls are scanned in order; backend=bibtex in a content
\* that is reached first decides for bibtex, else any sign of biblatex for biber
detectBibliographyTool(mainContent, files) ==
    LET Scanned(f) == /\ f.Encoding # "base64"
                      /\ \/ HasSuffix(f.Path, ".tex")
                         \/ HasSuffix(f.Path, ".sty")
                         \/ HasSuffix(f.Path, ".cls")
        scanned == SelectSeq(files, Scanned)
        contentsToScan == <<mainContent>> \o [i \in DOMAIN scanned |-> scanned[i].Content]
    IN  IF \E i \in DOMAIN contentsToScan : MentionsBackendBibtex(contentsToScan[i])
        THEN "bibtex"
        ELSE IF \E i \in DOMAIN contentsToScan : MentionsBiblatex(contentsToScan[i])
        THEN "biber"
        ELSE "bibtex"

needsMultiplePasses(content) == HasRefCommand(content)

\* a slip in adjustStrategyForIncremental: without tex and bib changes the
\* strategy of a full compile is kept
adjustStrategyKeepsFull(needsBib, needsMultiPass, bibTool, changes) ==
    LET hasBibliographyConfigured == needsBib \/ bibTool # "none"
    IN  IF ~changes.HasBibChanges
        THEN IF ~changes.HasTexChanges
             THEN <<needsBib, needsMultiPass>>
             ELSE IF ~hasBibliographyConfigured
             THEN <<FALSE, needsMultiPass>>
             ELSE <<TRUE, needsMultiPass>>
        ELSE IF ~changes.HasTexChanges
        THEN IF ~hasBibliographyConfigured
             THEN <<FALSE, needsMultiPass>>
             ELSE <<TRUE, needsMultiPass>>
        ELSE <<needsBib, needsMultiPass>>

\* a slip in adjustStrategyForIncremental: a change of .tex files alone never
\* reruns the bibliography
adjustStrategySkipsBib(needsBib, needsMultiPass, bibTool, changes) ==
    LET hasBibliographyConfigured == needsBib \/ bibTool # "none"
    IN  IF ~changes.HasBibChanges
        THEN IF ~changes.HasTexChanges
             THEN <<FALSE, FALSE>>
             ELSE <<FALSE, needsMultiPass>>
        ELSE IF ~changes.HasTexChanges
        THEN IF ~hasBibliographyConfigured
             THEN <<FALSE, needsMultiPass>>
             ELSE <<TRUE, needsMultiPass>>
        ELSE <<needsBib, needsMultiPass>>

\* adjustStrategyForIncremental, for s.fileChanges that is not nil: the pair
\* needsBib, needsMultiPass it returns
adjustStrategyForIncremental(needsBib, needsMultiPass, bibTool, changes) ==
    LET hasBibliographyConfigured == needsBib \/ bibTool # "none"
    IN  IF ~changes.HasBibChanges
        THEN IF ~changes.HasTexChanges /\ changes.HasAssetChanges
             THEN <<FALSE, FALSE>>
             ELSE IF ~changes.HasTexChanges /\ ~changes.HasAssetChanges
             THEN <<FALSE, FALSE>>
             ELSE IF ~hasBibliographyConfigured
             THEN <<FALSE, needsMultiPass>>
             ELSE <<TRUE, needsMultiPass>>
        ELSE IF ~changes.HasTexChanges
        THEN IF ~hasBibliographyConfigured
             THEN <<FALSE, needsMultiPass>>
             ELSE <<TRUE, needsMultiPass>>
        ELSE <<needsBib, needsMultiPass>>

\* determineStrategy: needsBib, needsMultiPass and s.bibTool when it returns;
\* hasFileChanges is s.fileChanges != nil
determineStrategy(mainContent, files, isIncremental, hasFileChanges, changes) ==
    LET needsBib == needsBibliography(mainContent, files)
        needsMultiPass == needsMultiplePasses(mainContent)
        detected == detectBibliographyTool(mainContent, files)
        bibTool == IF needsBib
                   THEN IF detected = "none" THEN "bibtex" ELSE detected
                   ELSE "none"
        adjusted == IF isIncremental /\ hasFileChanges
                    THEN adjustStrategyForIncremental(needsBib, needsMultiPass,
                                                      bibTool, changes)
                    ELSE <<needsBib, needsMultiPass>>
    IN  [needsBib |-> adjusted[1],
         needsMultiPass |-> adjusted[2],
         bibTool |-> IF ~adjusted[1] THEN "none" ELSE bibTool]

\* the file lists of a strategy call: the main document, with or without a
\* .bib file beside it
StrategyFiles(mainContent) ==
    {<<[Path |-> "main.tex", Content |-> mainContent, Encoding |-> ""]>>,
     <<[Path |-> "main.tex", Content |-> mainContent, Encoding |-> ""],
       [Path |-> "refs.bib", Content |-> "R", Encoding |-> ""]>>}

\* the flags of a FileChanges
ChangeFlags == [HasTexChanges : BOOLEAN, HasBibChanges : BOOLEAN,
                HasAssetChanges : BOOLEAN]

\* Compile's call of determineStrategy
CallDetermineStrategy ==
    /\ call = NoCall
    /\ \E mainContent \in StrategyContents, isIncremental, hasFileChanges \in BOOLEAN,
          changes \in ChangeFlags :
          \E files \in StrategyFiles(mainContent) :
             call' = [fn |-> "determineStrategy", mainContent |-> mainContent,
                      files |-> files, isIncremental |-> isIncremental,
                      hasFileChanges |-> hasFileChanges, changes |-> changes,
                      out |-> determineStrategy(mainContent, files, isIncremental,
                                                hasFileChanges, changes)]
    /\ UNCHANGED <<entries, projectLocks, locked, disk, now, cacheLog, pc, job, lock,
                   sess, result, jobs, used, crashed, webVars, outside>>

\* a call of categorizeFileChange on fresh FileChanges, for a path of every
\* extension
CallCategorize ==
    /\ call = NoCall
    /\ \E path \in PurePaths \cup {"ch1.tex", "pkg.sty", "book.cls"} :
          call' = [fn |-> "categorizeFileChange", path |-> path,
                   out |-> categorizeFileChange(path, NoChanges)]
    /\ UNCHANGED <<entries, projectLocks, locked, disk, now, cacheLog, pc, job, lock,
                   sess, result, jobs, used, crashed, webVars, outside>>

\* ---- the byte stream of the fingerprint
\* the separator byte HashFileSet writes after every path and every content
NUL == 0
\* the longest content, in bytes, of a file whose stream is computed
MaxContentLen == 3
\* bytes of a content: the separator byte and one other
ContentBytes == {NUL, 1}
\* paths as byte strings without the separator byte
BytePaths == {<<1>>, <<2>>}
ByteContents == UNION {[1..n -> ContentBytes] : n \in 0..MaxContentLen}
\* FileEntry with Path and Content as byte strings
ByteFiles == [Path : BytePaths, Content : ByteContents, Encoding : {"", "base64"}]
ByteFileLists == UNION {[1..n -> ByteFiles] : n \in 0..MaxFiles}

\* what HashFileSet writes to the hasher: path, 0, content, 0 for every file
\* in the order of the list
RECURSIVE ByteStream(_)
ByteStream(files) ==
    IF files = << >> THEN << >>
    ELSE Head(files).Path \o <<NUL>> \o Head(files).Content \o <<NUL>>
            \o ByteStream(Tail(files))

ByteStreams == [files \in ByteFileLists |-> ByteStream(files)]

\* a call of HashFileSet on a list of files given byte by byte
CallHashFileSet ==
    /\ call = NoCall
    /\ \E files \in ByteFileLists :
          call' = [fn |-> "HashFileSet", files |-> files,
                   out |-> Sha256(ByteStreams[files])]
    /\ UNCHANGED <<entries, projectLocks, locked, disk, now, cacheLog, pc, job, lock,
                   sess, result, jobs, used, crashed, webVars, outside>>

NextPure ==
    \/ CallDiffFiles
    \/ CallCategorize
    \/ CallFindMainFile
    \/ CallDetermineStrategy
    \/ CallRemoveEntry
    \/ CallHashFileSet

SpecPure == Init /\ [][NextPure]_vars

\* ------------------------------------------------------------------ claims
\* the session of w is between a returned LockProject and its UnlockProject
InSession(w) ==
    /\ Project(w) # ""
    /\ pc[w] \in {"check", "serve", "attach", "sync", "run", "read", "store",
                  "insert", "finish"}

\* some session holds the lock of project p
Held(p) == \E w \in Workers : InSession(w) /\ Project(w) = p

\* the session of w works in its workspace: from file materialisation until
\* it has read the output PDF
UsesWorkspace(w) == pc[w] \in {"sync", "run", "read"}

\* C1: per-project mutual exclusion: at most one compile session of a project
\* is between a returned LockProject and its matching UnlockProject.
C1_MutualExclusion ==
    \A w1, w2 \in Workers :
        (w1 # w2 /\ InSession(w1) /\ InSession(w2)) => Project(w1) # Project(w2)

\* C2: no false-positive cache hit: a session that returns a cache hit for its
\* file set returns the PDF of an entry whose content fingerprint is the
\* fingerprint of that file set.
C2_NoFalsePositiveHit ==
    \A w \in Workers :
        (pc[w] = "finish" /\ result[w].CacheHit)
            => result[w].ServedHash = HashFileSet(job[w].Files)

\* C3: capacity bound: the cache never holds more than MaxCachedProjects entries.
C3_CapacityBound == Cardinality(DOMAIN entries) <= MaxCachedProjects

\* C3 witness: the cache is full right after an insert that had to evict.
C3_Witness ==
    /\ Cardinality(DOMAIN entries) = MaxCachedProjects
    /\ cacheLog.kind = "lru"
    /\ \E w \in Workers : pc[w] = "finish" /\ result[w].Kind = "ok"
                          /\ Project(w) \in DOMAIN entries

C5_SweeperSparesHeldProjects ==
    [][CacheCleanup => \A p \in DOMAIN entries \ DOMAIN entries' : ~Held(p)]_vars

\* C6: a project's mutex is never taken out of projectLocks while a session
\* holds it or waits for it.
C6_LockNeverDeletedInUse ==
    [][\A p \in DOMAIN projectLocks :
          (p \notin DOMAIN projectLocks' \/ projectLocks'[p] # projectLocks[p])
          => ~ \E w \in Workers :
                /\ lock[w] = projectLocks[p]
                /\ (pc[w] = "lockWait" \/ InSession(w))
      ]_vars

\* C7: projectLocks holds a mutex for project p exactly when the cache holds
\* an entry for p or a session has acquired or is acquiring the lock of p.
C7_LockIffReferenced ==
    \A p \in Projects :
        p \in DOMAIN projectLocks
            <=> (\/ p \in DOMAIN entries
                 \/ \E w \in Workers :
                       Project(w) = p /\ (pc[w] = "lockWait" \/ InSession(w)))

\* C8: exclusive workspace ownership: while a session works in a workspace
\* directory, the directory exists (the cache has not deleted it) and no other
\* session works in it.
C8_ExclusiveWorkspace ==
    \A w \in Workers :
        UsesWorkspace(w)
            => /\ sess[w].tempDir \in DOMAIN disk
               /\ \A w2 \in Workers \ {w} :
                     UsesWorkspace(w2) => sess[w2].tempDir # sess[w].tempDir

\* C9: every cache entry with a workspace directory refers to a directory
\* that exists.
C9_EntryWorkspaceExists ==
    \A p \in DOMAIN entries :
        entries[p].TempDir # NoDir => entries[p].TempDir \in DOMAIN disk

\* C10: workspace disposal at session end: the workspace a session created is
\* gone when the session returns, unless the request has a project id and the
\* compile succeeded.
C10_WorkspaceDisposal ==
    \A w \in Workers :
        (/\ pc[w] = "finish"
         /\ sess[w].created # NoDir
         /\ (Project(w) = "" \/ ~result[w].Success))
            => sess[w].created \notin DOMAIN disk

\* the session of w ran the toolchain and read a valid PDF from it
CompiledOk(w) ==
    \/ pc[w] \in {"store", "insert"}
    \/ pc[w] = "finish" /\ result[w].Kind = "ok"

\* C11: among identical requests (same project id, same file list) that the
\* workers process concurrently, at most one session runs the toolchain; the
\* others are served from the cache.
C11_OneCompilePerBatch ==
    \A w1, w2 \in Workers :
        (/\ w1 # w2
         /\ Project(w1) # ""
         /\ job[w1] = job[w2]
         /\ CompiledOk(w1))
            => ~CompiledOk(w2)

\* the entry the cache holds for the project of w was stored for exactly the
\* file list of w's job
StoredForJob(w) ==
    /\ Project(w) \in DOMAIN entries
    /\ entries[Project(w)].ContentHash = <<"sha256", HashStream(job[w].Files)>>

Sent(i) ==
    Len(requests[i].resultChan) + (IF requests[i].status \in {"200", "500"} THEN 1 ELSE 0)

\* a worker took the job of request i off the queue
Dequeued(i) ==
    /\ requests[i].seq > 0
    /\ \A k \in DOMAIN requestQueue : requestQueue[k] # i

\* a worker is handling the job of request i
Handling(i) == \E w \in Workers : cur[w] = i

\* C13: every job a worker dequeues gets exactly one CompileResult on its reply
\* channel: never a second one, one as soon as the worker is done with the job,
\* and the worker is never stopped before it sends it; after a panic the result
\* is a failure.
C13_ExactlyOneResult ==
    /\ \A i \in DOMAIN requests :
          /\ Sent(i) <= 1
          /\ (Dequeued(i) /\ ~Handling(i)) => Sent(i) = 1
          /\ Handling(i) => (Sent(i) = 0 /\ ~crashed)
    /\ \A w \in Workers :
          (pc[w] = "finish" /\ result[w].Kind = "panic") => ~result[w].Success

\* C14: admission: the queue never holds more than QueueCapacity jobs; a
\* request that arrives while it holds QueueCapacity jobs is answered 503; and
\* a request answered 503 (queue full or enqueue timeout) stays so, was never
\* put on the queue and is never handled by a worker.
C14_Admission ==
    [][/\ Len(requestQueue') <= QueueCapacity
       /\ (Len(requests') > Len(requests) /\ Len(requestQueue) >= QueueCapacity)
             => requests'[Len(requests')].status = "503"
       /\ \A i \in DOMAIN requests : requests[i].status = "503"
                                        => requests'[i].status = "503"
       /\ \A i \in DOMAIN requests' :
             requests'[i].status = "503"
                => /\ requests'[i].seq = 0
                   /\ requests'[i].resultChan = << >>
                   /\ \A k \in DOMAIN requestQueue' : requestQueue'[k] # i
                   /\ \A w \in Workers : cur'[w] # i
      ]_vars

\* C14 witness: a request was answered 503 because the queue was full when it
\* arrived, and the queue is still full.
C14_Witness ==
    /\ Len(requestQueue) = QueueCapacity
    /\ Len(requests) = QueueCapacity + 1
    /\ requests[Len(requests)].status = "503"
    /\ \A i \in 1..QueueCapacity : requests[i].status = "queued"

\* C15: guaranteed release: when a session of a project ends, on whatever exit
\* path, the mutex it acquired in LockProject is unlocked, so that a session
\* blocked on it can go on.
C15_GuaranteedRelease ==
    [][\A w \in Workers :
          (pc[w] = "finish" /\ pc'[w] = "idle" /\ Project(w) # "")
             => lock[w] \notin locked'
      ]_vars

\* C16: within one project the sessions acquire the project lock in the order
\* in which their jobs were put on the queue: a session never holds the lock
\* while the session of an earlier job of the project still waits for it.
C16_LockInQueueOrder ==
    \A w1, w2 \in Workers :
        (/\ cur[w1] # 0 /\ cur[w2] # 0
         /\ Project(w1) # "" /\ Project(w1) = Project(w2)
         /\ requests[cur[w1]].seq < requests[cur[w2]].seq)
            => ~(pc[w1] = "lockWait" /\ InSession(w2))

\* no two files of the list have the same path
UniquePaths(files) ==
    \A i, j \in DOMAIN files : files[i].Path = files[j].Path => i = j

\* the two lists hold the same paths with the same content for every path
SameFiles(a, b) ==
    /\ {a[i].Path : i \in DOMAIN a} = {b[i].Path : i \in DOMAIN b}
    /\ \A i \in DOMAIN a : \A j \in DOMAIN b :
          a[i].Path = b[j].Path => a[i].Content = b[j].Content

\* C17: for file lists prev and current with unique paths,
\* diffFiles(current, buildFileHashMap(prev)) has no added, modified or deleted
\* file exactly when the two lists hold the same paths with the same contents.
C17_DiffEmptyIffSame ==
    (/\ call.fn = "diffFiles"
     /\ UniquePaths(call.prev) /\ UniquePaths(call.current))
        => ((/\ call.out.Added = << >>
             /\ call.out.Modified = << >>
             /\ call.out.Deleted = {})
            <=> SameFiles(call.prev, call.current))

\* C17 witness: two files in a different order give an empty diff.
C17_Witness ==
    /\ call.fn = "diffFiles"
    /\ Len(call.prev) = 2 /\ UniquePaths(call.prev) /\ UniquePaths(call.current)
    /\ call.prev # call.current
    /\ call.out = NoChanges

\* the expected PDF of the session of w exists and starts with %PDF
ValidPdfOnDisk(w) ==
    /\ sess[w].tempDir \in DOMAIN disk
    /\ disk[sess[w].tempDir].pdf # NoPdf
    /\ disk[sess[w].tempDir].pdf[1] = "%PDF"

\* C18: exit-code policy: finalize takes a compile as a success (it returns a
\* success result or goes on to store the PDF) exactly when the expected PDF
\* exists, starts with %PDF and the recorded exit code is at most 2; and no
\* success result and no cache entry ever carries a PDF without the %PDF magic.
C18_ExitCodePolicy ==
    [][/\ \A w \in Workers :
             (pc[w] = "read" /\ pc'[w] # "read")
                => ((pc'[w] = "store" \/ (pc'[w] = "finish" /\ result'[w].Success))
                    <=> (ValidPdfOnDisk(w) /\ sess[w].exitCode <= 2))
       /\ \A w \in Workers :
             result'[w].Success
                => (result'[w].PDFData # NoPdf /\ result'[w].PDFData[1] = "%PDF")
       /\ \A p \in DOMAIN entries' :
             entries'[p].LastPDFData # NoPdf /\ entries'[p].LastPDFData[1] = "%PDF"
      ]_vars

\* C18 witness: a valid PDF was produced with exit code 3 and the session
\* returned a failure.
C18_Witness ==
    \E w \in Workers :
        /\ pc[w] = "finish"
        /\ ~result[w].Success
        /\ result[w].ErrorMessage = "LaTeX toolchain exited with code"

\* C19: a request whose file list has no .tex source is rejected as a client
\* error: it is not answered with a 500 compile failure (nor with a PDF), and
\* no toolchain runs for it.
C19_NoMainFileIsClientError ==
    \A i \in DOMAIN requests :
        MainFilePath(requests[i].Files) = ""
            => /\ requests[i].status \notin {"500", "200"}
               /\ \A w \in Workers : cur[w] = i => pc[w] \notin {"run", "read"}

\* the path has a ".." component or a leading "/"
PathLeaves(path) ==
    LET parts == PathParts(path)
    IN  \/ \E k \in DOMAIN parts : parts[k] = ".."
        \/ (Len(parts) > 1 /\ parts[1] = "")

\* C20: workspace confinement: nothing is written or unlinked outside a
\* session's workspace directory, and a request with a file path that leaves
\* the workspace is rejected: its job is never put on the queue.
C20_WorkspaceConfinement ==
    /\ outside = {}
    /\ \A i \in DOMAIN requests :
          (\E k \in DOMAIN requests[i].Files : PathLeaves(requests[i].Files[k].Path))
             => requests[i].seq = 0

\* C21: lock hierarchy: the locks are acquired in the order global guard, then
\* project lock, then entry lock: a worker that holds a project lock does not
\* acquire the global guard, and within a step no lock is acquired after one
\* that is lower in the hierarchy while that one is held.
C21_LockHierarchy ==
    \A w \in Workers :
        \A k \in DOMAIN LocksTaken(w) :
            LocksTaken(w)[k] = "global" => ~InSession(w)

\* the cache calls with an empty project id, applied to the cache as it is
EmptyIDCallsAreNoOps ==
    /\ LockProjectMap(projectLocks, "", Fresh(UsedMutexes)) = projectLocks
    /\ MutexToUnlock(projectLocks, "") = NoMutex
    /\ Touch(entries, "", now) = entries
    /\ \A p \in DOMAIN entries :
          \A oldestID \in OldestIDs(entries) \cup {""} :
              SetLocked(CacheState, "", entries[p], oldestID) = CacheState

\* worker w takes a step of a request without project id
EmptyIDStep(w) ==
    /\ pc'[w] # pc[w]
    /\ IF pc[w] = "idle" THEN job'[w].ProjectID = "" ELSE Project(w) = ""

\* C22: an empty project id is a no-op: LockProject, UnlockProject, Get and Set
\* with the empty id leave entries and projectLocks as they are, and every
\* step of a compile request without project id leaves the entries, the
\* project locks, the locked mutexes and the workspaces of the entries
\* unchanged and never waits for a project lock.
C22_EmptyProjectID ==
    [][/\ EmptyIDCallsAreNoOps
       /\ \A w \in Workers :
             EmptyIDStep(w) =>
               /\ entries' = entries
               /\ projectLocks' = projectLocks
               /\ locked' = locked
               /\ cacheLog' = cacheLog
               /\ pc'[w] # "lockWait"
               /\ \A p \in DOMAIN entries :
                     entries[p].TempDir \in DOMAIN disk =>
                        /\ entries[p].TempDir \in DOMAIN disk'
                        /\ disk'[entries[p].TempDir] = disk[entries[p].TempDir]]_vars

\* a request without project id compiled while the cache held an entry
C22_Witness ==
    \E w \in Workers :
        /\ pc[w] = "finish"
        /\ Project(w) = ""
        /\ result[w].Kind = "ok"
        /\ DOMAIN entries # {}

\* C23: entry removal first releases the workspace directory of the entry and
\* then forgets the entry: after the removal of the directory the entry is
\* still in the cache and, if the removal succeeded, the directory is gone;
\* at the end the entry is forgotten, also when removing the directory failed,
\* and the other entries and directories are as before.
C23_RemoveThenForget ==
    (call.fn = "removeEntryLocked" /\ call.projectID \in DOMAIN call.c.entries)
        => LET dir == call.c.entries[call.projectID].TempDir
           IN  /\ call.released.entries = call.c.entries
               /\ (call.rmOk /\ dir # NoDir) => dir \notin DOMAIN call.released.disk
               /\ call.released.disk \in {call.c.disk, Del(call.c.disk, {dir})}
               /\ call.projectID \notin DOMAIN call.out.entries
               /\ call.out.entries = Del(call.c.entries, {call.projectID})
               /\ call.out.disk = call.released.disk

\* C23 witness: os.RemoveAll failed, the directory is still there and the entry
\* is forgotten.
C23_Witness ==
    /\ call.fn = "removeEntryLocked"
    /\ call.projectID \in DOMAIN call.c.entries
    /\ ~call.rmOk
    /\ call.c.entries[call.projectID].TempDir \in DOMAIN call.out.disk
    /\ call.projectID \notin DOMAIN call.out.entries

\* C24: diffFiles(current, cached), for a list with unique paths, classifies
\* every path exactly once: a file whose path is not cached is in Added, a
\* file cached with a different digest is in Modified, a file cached with the
\* same digest is in none of the three, a cached path absent from the list is
\* in Deleted; the three are pairwise disjoint; and each flag is set exactly
\* when some added, modified or deleted path is of its suffix group (.tex,
\* .sty, .cls, .ltx: tex; .bib: bib; any other: asset).
C24_DiffClassifies ==
    (call.fn = "diffFiles" /\ UniquePaths(call.current))
        => LET cached == buildFileHashMap(call.prev)
               current == call.current
               out == call.out
               A == {out.Added[i].Path : i \in DOMAIN out.Added}
               M == {out.Modified[i].Path : i \in DOMAIN out.Modified}
               D == out.Deleted
               In(f, list) == \E i \in DOMAIN list : list[i] = f
               Group(path) ==
                   IF PathSuffix(path) \in {".tex", ".sty", ".cls", ".ltx"} THEN "tex"
                   ELSE IF PathSuffix(path) = ".bib" THEN "bib" ELSE "asset"
               Some(g) == \E path \in A \cup M \cup D : Group(path) = g
           IN  /\ \A i \in DOMAIN current :
                     LET f == current[i]
                     IN  IF f.Path \notin DOMAIN cached
                         THEN In(f, out.Added) /\ f.Path \notin M \cup D
                         ELSE IF HashFileContent(f.Content) # cached[f.Path]
                         THEN In(f, out.Modified) /\ f.Path \notin A \cup D
                         ELSE f.Path \notin A \cup M \cup D
               /\ D = DOMAIN cached \ {current[i].Path : i \in DOMAIN current}
               /\ A \cap M = {} /\ A \cap D = {} /\ M \cap D = {}
               /\ Len(out.Added) = Cardinality(A)
               /\ Len(out.Modified) = Cardinality(M)
               /\ out.HasTexChanges <=> Some("tex")
               /\ out.HasBibChanges <=> Some("bib")
               /\ out.HasAssetChanges <=> Some("asset")

\* C25: classification by suffix: a changed path that ends in .tex, .sty, .cls
\* or .ltx sets HasTexChanges only, one that ends in .bib sets HasBibChanges
\* only, any other path sets HasAssetChanges only.
C25_CategoryBySuffix ==
    call.fn = "categorizeFileChange"
        => LET suffix == PathSuffix(call.path)
               tex == suffix \in {".tex", ".sty", ".cls", ".ltx"}
               bib == suffix = ".bib"
           IN  /\ call.out.HasTexChanges <=> tex
               /\ call.out.HasBibChanges <=> bib
               /\ call.out.HasAssetChanges <=> (~tex /\ ~bib)

\* C26: main-file selection over the ordered file list (unique paths): the
\* main file is the first file whose path ends in .tex and whose content holds
\* a \documentclass; without such a file it is the first file whose path ends
\* in .tex; without a .tex file the request fails for want of a main file.
C26_MainFileSelection ==
    (call.fn = "findMainFile" /\ UniquePaths(call.files))
        => LET files == call.files
               Content(i) == IF files[i].Encoding = "base64"
                             THEN Base64Decode(files[i].Content)
                             ELSE files[i].Content
               Tex(i) == HasSuffix(files[i].Path, ".tex")
               Doc(i) == Tex(i) /\ ContainsDocclass(Content(i))
               First(P(_)) == CHOOSE i \in DOMAIN files :
                                 P(i) /\ \A j \in DOMAIN files : P(j) => i <= j
           IN  IF \E i \in DOMAIN files : Doc(i)
               THEN ~call.failed /\ call.out.file = files[First(Doc)]
               ELSE IF \E i \in DOMAIN files : Tex(i)
               THEN ~call.failed /\ call.out.file = files[First(Tex)]
               ELSE call.failed

\* C27: incremental strategy, nothing or only assets changed: when the diff
\* of an incremental compile reports no tex change and no bib change,
\* determineStrategy returns no bibliography run and no multiple passes and
\* leaves the bibliography tool none, whatever the main document and the file
\* list ask for.
C27_IncrementalNothingOrAssets ==
    (/\ call.fn = "determineStrategy"
     /\ call.isIncremental /\ call.hasFileChanges
     /\ ~call.changes.HasTexChanges /\ ~call.changes.HasBibChanges)
        => call.out = [needsBib |-> FALSE, needsMultiPass |-> FALSE, bibTool |-> "none"]

\* C27 witness: only assets changed, for a document with citations, cross
\* references and a .bib file.
C27_Witness ==
    /\ call.fn = "determineStrategy"
    /\ call.isIncremental /\ call.hasFileChanges
    /\ call.changes = [HasTexChanges |-> FALSE, HasBibChanges |-> FALSE,
                       HasAssetChanges |-> TRUE]
    /\ needsBibliography(call.mainContent, call.files)
    /\ needsMultiplePasses(call.mainContent)
    /\ Len(call.files) = 2
    /\ call.out = [needsBib |-> FALSE, needsMultiPass |-> FALSE, bibTool |-> "none"]

C29_ReplaceDoesNotEvict ==
    [][\A w \in Workers :
          (pc[w] = "insert" /\ pc'[w] = "finish" /\ Project(w) \in DOMAIN entries)
             => /\ DOMAIN entries' = DOMAIN entries
                /\ entries'[Project(w)] = NewEntry(w)
                /\ \A q \in DOMAIN entries \ {Project(w)} : entries'[q] = entries[q]
                /\ disk' = disk
                /\ cacheLog' = cacheLog]_vars

\* C29 witness: a project was stored again while the cache was full, and
\* nothing was ever evicted.
C29_Witness ==
    \E w \in Workers :
        /\ pc[w] = "finish"
        /\ result[w].Kind = "ok"
        /\ sess[w].isIncremental
        /\ Project(w) \in DOMAIN entries
        /\ Cardinality(DOMAIN entries) = MaxCachedProjects
        /\ cacheLog.kind = "none"
        /\ \A q \in DOMAIN entries : entries[q].TempDir \in DOMAIN disk

EntryData(e) ==
    [ProjectID |-> e.ProjectID, TempDir |-> e.TempDir, FileHashes |-> e.FileHashes,
     ContentHash |-> e.ContentHash, LastPDFData |-> e.LastPDFData,
     LastSHA256 |-> e.LastSHA256]

\* C31: entries are born only from successful compiles and survive failures
\* unchanged: the only step of a session that creates an entry or changes the
\* fingerprint, the file hashes, the PDF, the digest or the directory of an
\* entry is the cache store, and a session reaches the store only with a PDF
\* that starts with %PDF and an exit code of at most 2 and then returns a
\* success; a session that returns a failure has not stored.
C31_EntriesOnlyFromSuccess ==
    [][\A w \in Workers :
          /\ (pc'[w] # pc[w] /\ pc[w] # "insert")
                => /\ DOMAIN entries' = DOMAIN entries
                   /\ \A p \in DOMAIN entries :
                         EntryData(entries'[p]) = EntryData(entries[p])
          /\ (pc[w] = "insert" /\ pc'[w] # "insert")
                => /\ Len(sess[w].pdfData) > 0
                   /\ sess[w].pdfData[1] = "%PDF"
                   /\ sess[w].exitCode <= 2
                   /\ result'[w].Success
          /\ (pc'[w] = "finish" /\ pc[w] # "finish" /\ ~result'[w].Success)
                => pc[w] \notin {"store", "insert"}]_vars

\* C31 witness: an incremental compile for a cached project failed, and the
\* entry is still the one of the compile before it.
C31_Witness ==
    \E w \in Workers :
        /\ pc[w] = "finish"
        /\ result[w].Kind = "error"
        /\ sess[w].isIncremental
        /\ Project(w) \in DOMAIN entries
        /\ entries[Project(w)].ContentHash # HashFileSet(job[w].Files)
        /\ cacheLog.kind = "none"

C34_WorkspaceFaithful ==
    [][\A w \in Workers :
          (pc[w] = "run" /\ pc'[w] = "read" /\ sess[w].tempDir \in DOMAIN disk)
             => disk[sess[w].tempDir].files = WriteFiles(<< >>, job[w].Files)]_vars

\* C35: the byte stream of the fingerprint is injective on file lists: a
\* list that differs from the hashed one in the number of files, in a path,
\* in a content (contents may hold the byte 0) or in an encoding flag has
\* a different stream.
C35_StreamInjective ==
    call.fn = "HashFileSet" =>
        \A other \in ByteFileLists :
            other # call.files => Sha256(ByteStreams[other]) # call.out

\* C36: unlock safety: every UnlockProject of a session with a project id
\* unlocks the very mutex that session locked in LockProject; it never
\* unlocks the mutex another session holds, never finds no mutex to unlock,
\* and never unlocks a mutex that is not locked (a fatal error), whatever
\* evictions and sweeps happened in between.
C36_UnlockSafety ==
    [][\A w \in Workers :
          (/\ pc[w] = "finish" /\ Project(w) # ""
           /\ (pc'[w] = "idle" \/ (crashed' /\ ~crashed)))
             => /\ MutexToUnlock(projectLocks, Project(w)) = lock[w]
                /\ lock[w] \in locked
                /\ ~crashed'
      ]_vars

\* the handler of request i has received the job's result and answered
Answered(i) == i \in DOMAIN requests /\ requests[i].status \in {"200", "500"}

\* C37: every enqueued job eventually gets its result: under fair scheduling
\* and with a toolchain that terminates, every job sent on the queue is taken
\* by a worker and its result reaches the handler; no worker waits for ever in
\* LockProject and no handler waits for ever on its reply channel.  (Stated
\* for runs in which the process has not stopped with a fatal error and the
\* clock has not reached its last value.)
C37_EveryJobAnswered ==
    \A i \in 1..MaxRequests :
        (i \in DOMAIN requests /\ requests[i].status = "queued")
            ~> (Answered(i) \/ crashed \/ now = MaxTime)

\* the fingerprint, the file hashes and the PDF of entry e come from one file
\* list: the PDF is what the toolchain makes of exactly the files of the list
\* the fingerprint and the hashes were computed from
EntryFromOneList(e) ==
    \E files \in FileLists \cup {FileAR} :
        /\ e.ContentHash = HashFileSet(files)
        /\ e.FileHashes = buildFileHashMap(files)
        /\ e.LastPDFData = <<"%PDF", WriteFiles(<< >>, files)>>

\* C38: entry consistency: the entry stored under key p has project id p, a
\* PDF that is not empty and starts with %PDF, the SHA-256 of that PDF as its
\* digest, and a fingerprint and file hashes computed from the one file list
\* whose compile produced that PDF.
C38_EntryConsistent ==
    \A p \in DOMAIN entries :
        /\ entries[p].ProjectID = p
        /\ Len(entries[p].LastPDFData) > 0
        /\ entries[p].LastPDFData[1] = "%PDF"
        /\ entries[p].LastSHA256 = Sha256(entries[p].LastPDFData)
        /\ EntryFromOneList(entries[p])
====
